---- MODULE Spec2Model ----
(***************************************************************************)
(* A state-machine model of pc.ModelComponent (src/unnamed/part_000): the  *)
(* binding of a component to a model asset, a whole-component material     *)
(* asset and per-mesh material assets of an asset catalog, and the         *)
(* reconciliation of the bound model with the scene and the owning entity. *)
(*                                                                         *)
(* Every handler of the component is an operator from a world record to a  *)
(* world record (the fields are the VARIABLES below), so that a handler    *)
(* that calls another handler is the composition of the two operators.     *)
(* An action applies one public operation, or delivers one catalog event   *)
(* with all the handlers it invokes, to the current world.                 *)
(***************************************************************************)
EXTENDS Integers, Sequences, FiniteSets, Bags, TLC

\* ------------------------------------------------------------------ bounds
MaxInst == 3        \* model instances that exist in one run
MaxStack == 2       \* handlers stacked for one (event, id) pair
MeshCount == 2      \* mesh instances of a model resource of the catalog

\* --------------------------------------------------------------- constants
Null == 0                   \* null: no asset, no model, no material
DEFAULT_MATERIAL == 100     \* pc.ModelHandler.DEFAULT_MATERIAL
OwnMaterial == 200          \* the material a model resource's mesh is built with
Undefined == 300            \* a mesh index the mapping table does not mention

ModelIds == {1, 2}          \* ids of model assets
MatIds == {3, 4}            \* ids of material assets; the resource of a loaded
                            \* material asset is identified with the asset's id
AssetIds == ModelIds \cup MatIds
InstIds == 1..MaxInst
MeshIdx == 0..(MeshCount - 1)

NoBatchGroup == -1          \* _batchGroupId of a component in no batch group
BatchGroupIds == {NoBatchGroup, 0, 1}

\* origin of a model instance
Unallocated == "unallocated"
Clone == "clone"            \* asset.resource.clone(), made by the component
Primitive == "primitive"    \* new pc.Model() made by the type setter
Direct == "direct"          \* an instance handed to the model property from outside

VARIABLES
    type,               \* _type
    asset,              \* _asset: Null or a model asset id
    assetOld,           \* _assetOld: 0 or the id the model slot is bound to
    dirtyModelAsset,    \* _dirtyModelAsset
    dirtyMaterialAsset, \* _dirtyMaterialAsset
    clonedModel,        \* _clonedModel
    model,              \* _model: Null or an instance id
    material,           \* _material
    materialAsset,      \* _materialAsset: Null or a material asset id ...
    materialAssetObj,   \* ... TRUE when _materialAsset holds the pc.Asset object
    mapping,            \* _mapping: mesh index -> Undefined, Null or an id
    materialEvents,     \* _materialEvents: the ledger of per-mesh handlers
    castShadows, receiveShadows, lightmapped, isStatic,
    batchGroupId,       \* _batchGroupId
    enabled,            \* the component's enabled flag
    entityEnabled,      \* entity.enabled
    children,           \* instances whose graph is a child of the entity
    entityRef,          \* instances whose _entity back-reference is set
    drawSet,            \* scene: models in the draw set
    shadowSet,          \* scene: models in the shadow-caster set
    reg,                \* catalog: registered ids
    loaded,             \* catalog: ids whose entry has a resource
    loading,            \* catalog: ids with a load in flight
    entryH,             \* id -> number of the component's load/unload/change/remove
                        \*       handler sets on the entry (asset.on)
    addH,               \* id -> number of once('add:'+id, _onModelAsset)
    matH,               \* id -> number of load:/unload:/remove:+id handler sets
    matAddH,            \* id -> number of once('add:'+id, _onMaterialAssetAdd)
    meshH,              \* bag of per-mesh closures registered with the catalog
    inst,               \* instance id -> the instance
    removed,            \* remove() has been called on the component
    bindCalls,          \* _onModelAsset(entry) calls made by the last add event
    threw,              \* the last operation ended by throwing an Error
    overflow            \* a bound of the model was exceeded in this step

\* pc.ComponentSystemRegistry (src/src/framework/components/registry.js)
VARIABLES
    regMap,             \* the registry's own properties set by add: name -> system
    regList,            \* the registry's _list property
    sysName,            \* system -> its name property
    regThrew            \* the last call on the registry threw

\* pc.ButtonComponent (src/unnamed/part_001) and its image element
VARIABLES
    visualState,        \* _visualState
    isHovering,         \* _isHovering
    isPressed,          \* _isPressed
    defaultTint,        \* _defaultTint: colour channels and alpha
    defaultSpriteAsset, \* _defaultSpriteAsset
    defaultSpriteFrame, \* _defaultSpriteFrame
    isApplyingTint,     \* _isApplyingTint
    isApplyingSprite,   \* _isApplyingSprite
    tweenInfo,          \* _tweenInfo
    active,             \* the active property
    btnEnabled,         \* the button component's enabled property
    transitionMode,     \* the transitionMode property
    fadeDuration,       \* the fadeDuration property
    hoverTint,          \* the hoverTint property
    hasElement,         \* the image entity has an element component
    elColor,            \* element.color
    elOpacity,          \* element.opacity
    elSpriteAsset,      \* element.spriteAsset
    elSpriteFrame       \* element.spriteFrame

buttonVars == <<visualState, isHovering, isPressed, defaultTint, defaultSpriteAsset,
          defaultSpriteFrame, isApplyingTint, isApplyingSprite, tweenInfo, active,
          btnEnabled, transitionMode, fadeDuration, hoverTint, hasElement, elColor,
          elOpacity, elSpriteAsset, elSpriteFrame>>

registryVars == <<regMap, regList, sysName, regThrew>>

componentVars == <<type, asset, assetOld, dirtyModelAsset, dirtyMaterialAsset, clonedModel,
          model, material, materialAsset, materialAssetObj, mapping, materialEvents,
          castShadows, receiveShadows, lightmapped, isStatic, batchGroupId,
          enabled, entityEnabled, children, entityRef, drawSet, shadowSet, reg, loaded, loading,
          entryH, addH, matH, matAddH, meshH, inst, removed, bindCalls, threw,
          overflow>>

vars == <<componentVars, registryVars, buttonVars>>

\* The world as one record, at the start of an operation (nothing thrown yet).
World ==
    [type |-> type, asset |-> asset, assetOld |-> assetOld,
     dirtyModelAsset |-> dirtyModelAsset, dirtyMaterialAsset |-> dirtyMaterialAsset,
     clonedModel |-> clonedModel, model |-> model, material |-> material,
     materialAsset |-> materialAsset, materialAssetObj |-> materialAssetObj,
     mapping |-> mapping, materialEvents |-> materialEvents,
     castShadows |-> castShadows, receiveShadows |-> receiveShadows,
     lightmapped |-> lightmapped, isStatic |-> isStatic,
     batchGroupId |-> batchGroupId, enabled |-> enabled, entityEnabled |-> entityEnabled,
     children |-> children, entityRef |-> entityRef,
     drawSet |-> drawSet, shadowSet |-> shadowSet,
     reg |-> reg, loaded |-> loaded, loading |-> loading,
     entryH |-> entryH, addH |-> addH, matH |-> matH, matAddH |-> matAddH,
     meshH |-> meshH, inst |-> inst, removed |-> removed,
     bindCalls |-> bindCalls, threw |-> FALSE, overflow |-> overflow]

\* The heap after a step: an instance that neither the component nor a
\* registered closure refers to keeps its identity, its origin and its
\* destroy() count, and its mesh instances are dropped.
Collect(w) ==
    [m \in DOMAIN w.inst |->
        IF m = w.model \/ \E c \in BagToSet(w.meshH) : c.m = m
        THEN w.inst[m]
        ELSE [w.inst[m] EXCEPT !.meshes = <<>>]]

\* The step to world w; a step that would exceed a bound is not taken. The
\* world is bound once, so the handler that builds it is evaluated once.
Commit(world) ==
    \E w \in {world} :
    /\ ~w.overflow
    /\ type' = w.type /\ asset' = w.asset /\ assetOld' = w.assetOld
    /\ dirtyModelAsset' = w.dirtyModelAsset
    /\ dirtyMaterialAsset' = w.dirtyMaterialAsset
    /\ clonedModel' = w.clonedModel /\ model' = w.model /\ material' = w.material
    /\ materialAsset' = w.materialAsset /\ materialAssetObj' = w.materialAssetObj
    /\ mapping' = w.mapping /\ materialEvents' = w.materialEvents
    /\ castShadows' = w.castShadows /\ receiveShadows' = w.receiveShadows
    /\ lightmapped' = w.lightmapped /\ isStatic' = w.isStatic
    /\ batchGroupId' = w.batchGroupId
    /\ enabled' = w.enabled /\ entityEnabled' = w.entityEnabled
    /\ children' = w.children /\ entityRef' = w.entityRef
    /\ drawSet' = w.drawSet /\ shadowSet' = w.shadowSet
    /\ reg' = w.reg /\ loaded' = w.loaded /\ loading' = w.loading
    /\ entryH' = w.entryH /\ addH' = w.addH /\ matH' = w.matH /\ matAddH' = w.matAddH
    /\ meshH' = w.meshH /\ inst' = Collect(w) /\ removed' = w.removed
    /\ bindCalls' = w.bindCalls /\ threw' = w.threw /\ overflow' = FALSE
    /\ UNCHANGED <<registryVars, buttonVars>>

\* A mesh instance as a model resource or the type setter builds it.
NewMesh(mat) ==
    [castShadow |-> FALSE, receiveShadow |-> FALSE, isStatic |-> FALSE,
     baked |-> FALSE, material |-> mat]

NoInst == [origin |-> Unallocated, src |-> Null, destroyed |-> 0, meshes |-> <<>>]

NoMapping == [i \in MeshIdx |-> Undefined]

\* The state after the constructor of pc.ModelComponent.
InitModelComponent ==
    /\ type = "asset" /\ asset = Null /\ assetOld = 0
    /\ dirtyModelAsset = FALSE /\ dirtyMaterialAsset = FALSE
    /\ clonedModel = FALSE /\ model = Null /\ material = Null
    /\ materialAsset = Null /\ materialAssetObj = FALSE
    /\ mapping = NoMapping /\ materialEvents = {}
    /\ castShadows = TRUE /\ receiveShadows = TRUE
    /\ lightmapped = FALSE /\ isStatic = FALSE
    /\ batchGroupId = NoBatchGroup
    /\ enabled = TRUE /\ entityEnabled = TRUE
    /\ children = {} /\ entityRef = {} /\ drawSet = {} /\ shadowSet = {}
    /\ reg = {} /\ loaded = {} /\ loading = {}
    /\ entryH = [i \in ModelIds |-> 0] /\ addH = [i \in ModelIds |-> 0]
    /\ matH = [i \in MatIds |-> 0] /\ matAddH = [i \in MatIds |-> 0]
    /\ meshH = EmptyBag
    /\ inst = [i \in InstIds |-> NoInst]
    /\ removed = FALSE /\ bindCalls = 0 /\ threw = FALSE /\ overflow = FALSE

\* ------------------------------------------------------------ collaborators
\* The catalog, the scene, the entity and the event emitter are code of the
\* engine outside src/; their contracts are those of spec.md, section 6.

\* assets.get(id): the entry, if one is registered under id.
Get(w, id) == IF id \in w.reg THEN id ELSE Null

\* assets.load(entry): asynchronous; the load event is delivered later.
Load(w, id) ==
    IF id \in w.loaded \/ id \in w.loading THEN w
    ELSE [w EXCEPT !.loading = @ \cup {id}]

\* scene.containsModel
ContainsModel(w, m) == m \in w.drawSet

\* scene.addModel: into the draw set, and into the shadow-caster set if the
\* model's mesh instances cast shadows.
AddModel(w, m) ==
    [w EXCEPT !.drawSet = @ \cup {m},
              !.shadowSet = IF \E k \in DOMAIN w.inst[m].meshes :
                                    w.inst[m].meshes[k].castShadow
                            THEN @ \cup {m} ELSE @]

\* scene.removeModel: out of the draw set and the shadow-caster set.
RemoveModel(w, m) ==
    [w EXCEPT !.drawSet = @ \ {m}, !.shadowSet = @ \ {m}]

AddShadowCaster(w, m) == [w EXCEPT !.shadowSet = @ \cup {m}]

RemoveShadowCaster(w, m) == [w EXCEPT !.shadowSet = @ \ {m}]

\* emitter.on / once: one more handler for the pair; handlers stack.
Stack(n) == IF n < MaxStack THEN n + 1 ELSE n

Full(n) == n >= MaxStack

\* The next unused instance id (0 when the pool is used up).
FreshInst(w) ==
    IF \E i \in InstIds : w.inst[i].origin = Unallocated
    THEN CHOOSE i \in InstIds :
            /\ w.inst[i].origin = Unallocated
            /\ \A j \in InstIds : j < i => w.inst[j].origin # Unallocated
    ELSE 0

\* A new instance of the given origin with n meshes of material mat.
NewInstance(origin, src, n, mat) ==
    [origin |-> origin, src |-> src, destroyed |-> 0,
     meshes |-> [k \in 1..n |-> NewMesh(mat)]]

\* Every mesh of instance m changed by f.
MeshesCastShadow(w, m, v) ==
    [w EXCEPT !.inst[m].meshes = [k \in DOMAIN @ |-> [@[k] EXCEPT !.castShadow = v]]]

MeshesReceiveShadow(w, m, v) ==
    [w EXCEPT !.inst[m].meshes = [k \in DOMAIN @ |-> [@[k] EXCEPT !.receiveShadow = v]]]

MeshesIsStatic(w, m, v) ==
    [w EXCEPT !.inst[m].meshes = [k \in DOMAIN @ |-> [@[k] EXCEPT !.isStatic = v]]]

MeshesBaked(w, m, v) ==
    [w EXCEPT !.inst[m].meshes = [k \in DOMAIN @ |-> [@[k] EXCEPT !.baked = v]]]

MeshesMaterial(w, m, v) ==
    [w EXCEPT !.inst[m].meshes = [k \in DOMAIN @ |-> [@[k] EXCEPT !.material = v]]]

\* meshInstance.material = v for mesh index i (0-based) of instance m; a write
\* to a mesh that is no longer part of any instance (m = 0) changes nothing seen.
SetMeshMaterial(w, m, i, v) ==
    IF m = 0 \/ (i + 1) \notin DOMAIN w.inst[m].meshes THEN w
    ELSE [w EXCEPT !.inst[m].meshes[i + 1].material = v]

\* ------------------------------------------------- per-mesh material slots
\* A per-mesh closure registered with the catalog: the handler of event
\* evt + ':' + id that writes to mesh idx of instance m.
Closure(evt, id, m, idx) == [evt |-> evt, id |-> id, m |-> m, idx |-> idx]

\* A path-like mapping value that names the file of material asset id,
\* relative to the directory of the model asset.
PathOf(id) == 10 + id

IsPath(v) == v > 10 /\ (v - 10) \in MatIds

\* The catalog-declared default mapping (asset.data.mapping) of model asset a:
\* asset 1 maps mesh 0 to material 3 and says nothing of the other meshes;
\* asset 2 has no mapping.
HasAssetMapping(a) == a = 1

AssetMapping(a, i) == IF a = 1 /\ i = 0 THEN 3 ELSE Undefined

\* _setMaterialEvent: the closure is registered with the catalog, and the
\* ledger entry of (index, evt:id) is overwritten with it.
SetMaterialEvent(w, idx, evt, id, m) ==
    LET c == Closure(evt, id, m, idx)
        stale == {d \in w.materialEvents : d.idx = idx /\ d.evt = evt /\ d.id = id}
    IN [w EXCEPT !.meshH = @ (+) SetToBag({c}),
                 !.materialEvents = (@ \ stale) \cup {c},
                 !.overflow = @ \/ CopiesIn(c, w.meshH) >= MaxStack]

\* _unsetMaterialEvents: assets.off for every closure of the ledger.
UnsetMaterialEvents(w) ==
    [w EXCEPT !.meshH = @ (-) SetToBag(w.materialEvents),
              !.materialEvents = {}]

\* _getMaterialAssetUrl: null unless the model asset is set and registered.
HasMaterialAssetUrl(w) == w.asset # Null /\ Get(w, w.asset) # Null

\* _getAssetByIdOrPath
GetAssetByIdOrPath(w, idOrPath) ==
    IF ~IsPath(idOrPath) THEN Get(w, idOrPath)
    ELSE IF w.asset # Null /\ HasMaterialAssetUrl(w) THEN Get(w, idOrPath - 10)
    ELSE Null

\* handleMaterial of _loadAndSetMeshInstanceMaterial
HandleMaterial(w, a, m, idx) ==
    IF a \in w.loaded
    THEN SetMaterialEvent(SetMeshMaterial(w, m, idx, a), idx, "remove", a, m)
    ELSE LET w1 == SetMaterialEvent(w, idx, "load", a, m)
         IN IF w1.enabled /\ w1.entityEnabled THEN Load(w1, a) ELSE w1

\* _loadAndSetMeshInstanceMaterial: it returns when the reference matches no
\* entry, so the branch after it that would subscribe to 'add' is never taken.
LoadAndSetMeshInstanceMaterial(w, idOrPath, m, idx) ==
    LET a == GetAssetByIdOrPath(w, idOrPath)
    IN IF a = Null THEN w ELSE HandleMaterial(w, a, m, idx)

\* The load closure without its assignment to meshInstance.material.
MeshLoadHandlerNoWrite(w, c) == SetMaterialEvent(w, c.idx, "remove", c.id, c.m)

\* The load closure: the mesh gets the resource, and a remove closure is set.
MeshLoadHandler(w, c) ==
    SetMaterialEvent(SetMeshMaterial(w, c.m, c.idx, c.id), c.idx, "remove", c.id, c.m)

\* The remove closure.
MeshRemoveHandler(w, c) == SetMeshMaterial(w, c.m, c.idx, DEFAULT_MATERIAL)

\* One iteration of the mapping setter's loop, and the rest of the loop.
RECURSIVE MappingLoop(_, _, _, _)
MappingLoop(w, newValue, i, len) ==
    IF i >= len THEN w
    ELSE LET m == w.model
             modelAsset == IF w.asset # Null THEN Get(w, w.asset) ELSE Null
             explicit == IF i \in DOMAIN newValue THEN newValue[i] ELSE Undefined
             w1 == IF explicit # Undefined
                   THEN IF explicit # Null
                        THEN LoadAndSetMeshInstanceMaterial(w, explicit, m, i)
                        ELSE SetMeshMaterial(w, m, i, DEFAULT_MATERIAL)
                   ELSE IF modelAsset # Null /\ HasAssetMapping(modelAsset)
                        THEN IF AssetMapping(modelAsset, i) # Undefined
                             THEN LoadAndSetMeshInstanceMaterial(
                                      w, AssetMapping(modelAsset, i), m, i)
                             ELSE SetMeshMaterial(w, m, i, DEFAULT_MATERIAL)
                        ELSE w
         IN MappingLoop(w1, newValue, i + 1, len)

\* The mapping setter.
MappingSet(w, newValue) ==
    LET w1 == [w EXCEPT !.mapping = newValue]
    IN IF w1.type # "asset" \/ w1.model = Null THEN w1
       ELSE MappingLoop(UnsetMaterialEvents(w1), newValue, 0,
                        Len(w1.inst[w1.model].meshes))

\* ------------------------------------------------------------ render flags
\* The lightmapped setter: MASK_BAKED or MASK_DYNAMIC on every mesh.
LightmappedSet(w, value) ==
    LET w1 == [w EXCEPT !.lightmapped = value]
    IN IF w1.model # Null THEN MeshesBaked(w1, w1.model, value) ELSE w1

\* The isStatic setter.
IsStaticSet(w, value) ==
    LET w1 == [w EXCEPT !.isStatic = value]
    IN IF w1.model # Null THEN MeshesIsStatic(w1, w1.model, value) ELSE w1

\* The receiveShadows setter.
ReceiveShadowsSet(w, value) ==
    LET w1 == [w EXCEPT !.receiveShadows = value]
    IN IF w1.model # Null THEN MeshesReceiveShadow(w1, w1.model, value) ELSE w1

\* The castShadows setter without its call of scene.removeShadowCaster.
CastShadowsSetNoRemove(w, value) ==
    LET oldValue == w.castShadows
        w1 == [w EXCEPT !.castShadows = value]
        m == w1.model
    IN IF m = Null THEN w1
       ELSE LET w3 == MeshesCastShadow(w1, m, value)
            IN IF ContainsModel(w1, m) /\ ~oldValue /\ value
               THEN AddShadowCaster(w3, m) ELSE w3

\* The castShadows setter.
CastShadowsSet(w, value) ==
    LET oldValue == w.castShadows
        w1 == [w EXCEPT !.castShadows = value]
        m == w1.model
    IN IF m = Null THEN w1
       ELSE LET inScene == ContainsModel(w1, m)
                w2 == IF inScene /\ oldValue /\ ~value
                      THEN RemoveShadowCaster(w1, m) ELSE w1
                w3 == MeshesCastShadow(w2, m, value)
            IN IF inScene /\ ~oldValue /\ value THEN AddShadowCaster(w3, m) ELSE w3

\* The batchGroupId setter. scene.addModel is handed _model as it is, null
\* included.
BatchGroupIdSet(w, newValue) ==
    LET oldValue == w.batchGroupId
        w1 == [w EXCEPT !.batchGroupId = newValue]
    IN IF newValue < 0 /\ oldValue >= 0 /\ w1.enabled /\ w1.entityEnabled
       THEN IF w1.model # Null THEN AddModel(w1, w1.model)
            ELSE [w1 EXCEPT !.drawSet = @ \cup {Null}]
       ELSE w1

\* The meshInstances setter: the model's mesh array is replaced by the given
\* mesh instances; closures that hold a mesh of the old array keep holding it.
MeshInstancesSet(w, value) ==
    IF w.model = Null THEN w
    ELSE LET m == w.model
             Retarget(c) == IF c.m = m THEN [c EXCEPT !.m = 0] ELSE c
             cs == BagToSet(w.meshH)
             Count(c) == IF c \in cs THEN w.meshH[c] ELSE 0
         IN [w EXCEPT !.inst[m].meshes = value,
                      !.materialEvents = {Retarget(c) : c \in @},
                      !.meshH = [d \in {Retarget(c) : c \in cs} |->
                                    IF d.m = 0
                                    THEN Count(d) + Count([d EXCEPT !.m = m])
                                    ELSE Count(d)]]

\* ------------------------------------------------------------ model binding
\* The model setter.
ModelSet(w, newValue) ==
    LET oldValue == w.model
        w1 == [w EXCEPT !.model = newValue]
        w2 == IF oldValue # Null
              THEN LET d == RemoveModel(w1, oldValue)
                       e == [d EXCEPT !.children = @ \ {oldValue},
                                      !.entityRef = @ \ {oldValue}]
                   IN IF e.clonedModel
                      THEN [e EXCEPT !.inst[oldValue].destroyed = @ + 1,
                                     !.clonedModel = FALSE]
                      ELSE e
              ELSE w1
    IN IF newValue # Null
       THEN LET a == MeshesReceiveShadow(
                         MeshesCastShadow(w2, newValue, w2.castShadows),
                         newValue, w2.receiveShadows)
                b == IsStaticSet(LightmappedSet(a, a.lightmapped), a.isStatic)
                c == [b EXCEPT !.children = @ \cup {newValue}]
                d == IF c.enabled /\ c.entityEnabled THEN AddModel(c, newValue) ELSE c
                e == [d EXCEPT !.entityRef = @ \cup {newValue}]
            IN IF e.type = "asset" THEN MappingSet(e, e.mapping)
               ELSE UnsetMaterialEvents(e)
       ELSE UnsetMaterialEvents(w2)

\* _onModelLoaded
OnModelLoaded(w, m) == IF w.type = "asset" THEN ModelSet(w, m) ELSE w

\* asset.resource.clone(): a new instance with the resource's meshes.
CloneResource(w, a) ==
    LET m == FreshInst(w)
    IN IF m = 0 THEN [w EXCEPT !.overflow = TRUE]
       ELSE [w EXCEPT !.inst[m] = NewInstance(Clone, a, MeshCount, OwnMaterial)]

\* _onAssetLoad
OnAssetLoad(w, a) ==
    IF a \in w.loaded
    THEN LET m == FreshInst(w)
             w1 == CloneResource(w, a)
         IN IF m = 0 THEN w1
            ELSE [OnModelLoaded(w1, m) EXCEPT !.clonedModel = TRUE]
    ELSE w

\* _onAssetUnload without its assignment of null to the model.
OnAssetUnloadKeepsModel(w, a) ==
    IF w.model = Null THEN w
    ELSE RemoveModel(w, w.model)

\* _onAssetUnload
OnAssetUnload(w, a) ==
    IF w.model = Null THEN w
    ELSE ModelSet(RemoveModel(w, w.model), Null)

\* _onModelAsset (a = Null for null)
OnModelAsset(w, a) ==
    LET old == w.assetOld
        w1 == IF old # 0
              THEN [w EXCEPT !.addH[old] = 0,
                             !.entryH[old] = IF Get(w, old) # Null THEN 0 ELSE @]
              ELSE w
        w2 == [w1 EXCEPT !.assetOld = IF a # Null THEN a ELSE 0]
    IN IF a # Null
       THEN LET w3 == [w2 EXCEPT !.entryH[a] = Stack(@),
                                 !.overflow = @ \/ Full(w2.entryH[a])]
            IN IF a \in w3.loaded
               THEN LET m == FreshInst(w3)
                        w4 == CloneResource([w3 EXCEPT !.dirtyModelAsset = FALSE], a)
                    IN IF m = 0 THEN w4
                       ELSE [OnModelLoaded(w4, m) EXCEPT !.clonedModel = TRUE]
               ELSE IF w3.enabled /\ w3.entityEnabled
                    THEN Load([w3 EXCEPT !.dirtyModelAsset = FALSE], a)
                    ELSE w3
       ELSE [w2 EXCEPT !.dirtyModelAsset = FALSE]

\* _setModelAsset: null never equals _assetOld, which is a number.
SetModelAsset(w, id) ==
    IF id # Null /\ w.assetOld = id THEN w
    ELSE LET a == IF id # Null THEN Get(w, id) ELSE Null
             w1 == OnModelAsset([w EXCEPT !.dirtyModelAsset = TRUE], a)
         IN IF a = Null /\ id # Null
            THEN [w1 EXCEPT !.addH[id] = Stack(@), !.overflow = @ \/ Full(w1.addH[id])]
            ELSE w1

\* The asset setter.
AssetSet(w, value) ==
    LET isAsset == w.type = "asset"
        id == IF isAsset THEN value ELSE Null
        w1 == IF isAsset
              THEN IF value # Null THEN [w EXCEPT !.asset = value]
                   ELSE ModelSet([w EXCEPT !.asset = Null], Null)
              ELSE w
        w2 == IF id = Null THEN [w1 EXCEPT !.asset = Null] ELSE w1
    IN SetModelAsset(w2, id)

\* _onAssetRemove
OnAssetRemove(w, a) == IF w.asset = a THEN AssetSet(w, Null) ELSE w

\* remove()
Remove(w) == [OnModelAsset(w, Null) EXCEPT !.removed = TRUE]

\* ------------------------------------------- whole-component material slot
\* The material setter.
MaterialSet(w, newValue) ==
    LET w1 == [w EXCEPT !.material = newValue]
    IN IF newValue # w.material /\ w1.model # Null /\ w1.type # "asset"
       THEN MeshesMaterial(w1, w1.model, newValue)
       ELSE w1

\* _onMaterialAssetRemove, called with the entry a.
OnMaterialAssetRemove(w, a) ==
    LET w1 == IF a \in w.loaded /\ w.material = a
              THEN MaterialSet(w, DEFAULT_MATERIAL) ELSE w
    IN [w1 EXCEPT !.matAddH[a] = 0, !.matH[a] = 0]

\* _onMaterialAssetAdd
OnMaterialAssetAdd(w, a) ==
    IF a \in w.loaded
    THEN [MaterialSet(w, a) EXCEPT !.dirtyMaterialAsset = FALSE]
    ELSE IF w.enabled /\ w.entityEnabled
         THEN Load([w EXCEPT !.dirtyMaterialAsset = FALSE], a)
         ELSE w

\* _onMaterialAssetLoad
OnMaterialAssetLoad(w, a) ==
    IF a \in w.loaded
    THEN [MaterialSet(w, a) EXCEPT !.dirtyMaterialAsset = FALSE]
    ELSE IF w.enabled /\ w.entityEnabled
         THEN Load([w EXCEPT !.dirtyMaterialAsset = FALSE], a)
         ELSE w

\* _onMaterialAssetUnload
OnMaterialAssetUnload(w, a) ==
    IF a \in w.loaded /\ w.material = a THEN MaterialSet(w, DEFAULT_MATERIAL) ELSE w

\* The materialAsset setter. value is Null, or the id a of an entry, given as the
\* number (isObj = FALSE) or as the pc.Asset object (isObj = TRUE). The field is
\* assigned before it is compared with the id, so the comparison tells only
\* whether value is an object, and the slot it tears down is the new one.
MaterialAssetSet(w, value, isObj) ==
    LET w1 == [w EXCEPT !.materialAsset = value,
                        !.materialAssetObj = isObj /\ value # Null,
                        !.dirtyMaterialAsset = TRUE]
        id == value
        w2 == IF isObj /\ value # Null
              THEN LET u == OnMaterialAssetRemove(w1, value)
                   IN [u EXCEPT !.matH[id] = Stack(@),
                                !.overflow = @ \/ Full(u.matH[id])]
              ELSE w1
    IN IF id # Null
       THEN LET a == Get(w2, id)
                w3 == IF a # Null THEN OnMaterialAssetLoad(w2, a) ELSE w2
            IN [w3 EXCEPT !.matAddH[id] = Stack(@),
                          !.overflow = @ \/ Full(w3.matAddH[id])]
       ELSE [MaterialSet(w2, DEFAULT_MATERIAL) EXCEPT !.dirtyMaterialAsset = FALSE]

\* ------------------------------------------------------------------- type
Primitives == {"box", "capsule", "cone", "cylinder", "sphere", "plane"}

\* Values that are no model type: a falsy one and a truthy one.
InvalidTypes == {"", "foo"}

\* The type setter. _type is assigned first; a falsy value ("") ends the
\* setter there, and a value the switch does not know throws.
TypeSet(w, value) ==
    LET w1 == [w EXCEPT !.type = value]
    IN IF value = "" THEN w1
       ELSE IF value = "asset"
       THEN IF w1.asset # Null THEN SetModelAsset(w1, w1.asset)
            ELSE ModelSet(w1, Null)
       ELSE IF value \notin Primitives THEN [w1 EXCEPT !.threw = TRUE]
       ELSE LET m == FreshInst(w1)
            IN IF m = 0 THEN [w1 EXCEPT !.overflow = TRUE]
               ELSE AssetSet(
                        ModelSet([w1 EXCEPT !.inst[m] =
                                      NewInstance(Primitive, Null, 1, w1.material)], m),
                        Null)

\* ------------------------------------------------------- enable / disable
\* The loop of onEnable over the mapping table.
RECURSIVE EnableMappingLoop(_, _)
EnableMappingLoop(w, todo) ==
    IF todo = {} THEN w
    ELSE LET i == CHOOSE i \in todo : \A j \in todo : i <= j
             v == w.mapping[i]
             a == IF v # Undefined /\ v # Null THEN GetAssetByIdOrPath(w, v) ELSE Null
             w1 == IF a # Null /\ a \notin w.loaded THEN Load(w, a) ELSE w
         IN EnableMappingLoop(w1, todo \ {i})

\* onEnable, from its second statement on (the material asset and the mapping).
OnEnableMaterials(w) ==
    LET ma == IF w.materialAsset # Null /\ ~w.materialAssetObj
              THEN Get(w, w.materialAsset) ELSE Null
        w1 == IF w.dirtyMaterialAsset /\ ma # Null /\ ma \notin w.loaded
              THEN OnMaterialAssetLoad(w, ma) ELSE w
    IN IF w1.type = "asset" THEN EnableMappingLoop(w1, DOMAIN w1.mapping) ELSE w1

\* onEnable
OnEnable(w) ==
    IF w.model # Null
    THEN OnEnableMaterials(IF ~ContainsModel(w, w.model) THEN AddModel(w, w.model) ELSE w)
    ELSE IF w.type = "asset" /\ w.dirtyModelAsset
         THEN IF w.asset = Null THEN w
              ELSE OnEnableMaterials(IF Get(w, w.asset) # Null
                                     THEN OnModelAsset(w, w.asset) ELSE w)
         ELSE OnEnableMaterials(w)

\* onDisable that leaves the model in the scene.
OnDisableKeepsModel(w) == w

\* onDisable
OnDisable(w) ==
    IF w.model # Null /\ ContainsModel(w, w.model) THEN RemoveModel(w, w.model) ELSE w

\* The component's enabled property (pc.Component): onEnable or onDisable runs
\* when the value changes and the entity is enabled.
EnabledSet(w, value) ==
    LET w1 == [w EXCEPT !.enabled = value]
    IN IF value # w.enabled /\ w1.entityEnabled
       THEN IF value THEN OnEnable(w1) ELSE OnDisable(w1)
       ELSE w1

\* The entity's enabled property: the hooks of its enabled components run.
EntityEnabledSet(w, value) ==
    LET w1 == [w EXCEPT !.entityEnabled = value]
    IN IF value # w.entityEnabled /\ w1.enabled
       THEN IF value THEN OnEnable(w1) ELSE OnDisable(w1)
       ELSE w1

\* ------------------------------------------------------- event delivery
\* A handler is invoked only while it is still subscribed at its turn.

\* 'add:'+id: the once handlers of the model slot.
RECURSIVE FireModelAdd(_, _, _)
FireModelAdd(w, id, n) ==
    IF n = 0 \/ w.addH[id] = 0 THEN w
    ELSE FireModelAdd(
             OnModelAsset([w EXCEPT !.addH[id] = @ - 1, !.bindCalls = @ + 1], id),
             id, n - 1)

\* 'load' on the entry: the model slot's _onAssetLoad handlers.
RECURSIVE FireAssetLoad(_, _, _)
FireAssetLoad(w, id, n) ==
    IF n = 0 \/ w.entryH[id] = 0 THEN w
    ELSE FireAssetLoad(OnAssetLoad(w, id), id, n - 1)

\* 'unload' on the entry.
RECURSIVE FireAssetUnload(_, _, _)
FireAssetUnload(w, id, n) ==
    IF n = 0 \/ w.entryH[id] = 0 THEN w
    ELSE FireAssetUnload(OnAssetUnload(w, id), id, n - 1)

\* 'remove' on the entry.
RECURSIVE FireAssetRemove(_, _, _)
FireAssetRemove(w, id, n) ==
    IF n = 0 \/ w.entryH[id] = 0 THEN w
    ELSE FireAssetRemove(OnAssetRemove(w, id), id, n - 1)

\* 'add:'+id: the once handlers of the whole-component material slot.
RECURSIVE FireMaterialAdd(_, _, _)
FireMaterialAdd(w, id, n) ==
    IF n = 0 \/ w.matAddH[id] = 0 THEN w
    ELSE FireMaterialAdd(OnMaterialAssetAdd([w EXCEPT !.matAddH[id] = @ - 1], id),
                         id, n - 1)

\* 'load:'+id, 'unload:'+id, 'remove:'+id of the whole-component material slot.
RECURSIVE FireMaterialLoad(_, _, _)
FireMaterialLoad(w, id, n) ==
    IF n = 0 \/ w.matH[id] = 0 THEN w
    ELSE FireMaterialLoad(OnMaterialAssetLoad(w, id), id, n - 1)

RECURSIVE FireMaterialUnload(_, _, _)
FireMaterialUnload(w, id, n) ==
    IF n = 0 \/ w.matH[id] = 0 THEN w
    ELSE FireMaterialUnload(OnMaterialAssetUnload(w, id), id, n - 1)

RECURSIVE FireMaterialRemove(_, _, _)
FireMaterialRemove(w, id, n) ==
    IF n = 0 \/ w.matH[id] = 0 THEN w
    ELSE FireMaterialRemove(OnMaterialAssetRemove(w, id), id, n - 1)

\* The per-mesh closures of evt:id that are registered in w.
MeshClosures(w, evt, id) == {c \in BagToSet(w.meshH) : c.evt = evt /\ c.id = id}

\* One closure invoked n times.
RECURSIVE InvokeMesh(_, _, _)
InvokeMesh(w, c, n) ==
    IF n = 0 THEN w
    ELSE InvokeMesh(IF c.evt = "load" THEN MeshLoadHandler(w, c)
                    ELSE MeshRemoveHandler(w, c), c, n - 1)

\* Every closure of the set invoked, each as often as it is registered.
RECURSIVE FireMesh(_, _)
FireMesh(w, cs) ==
    IF cs = {} THEN w
    ELSE LET c == CHOOSE c \in cs : TRUE
         IN FireMesh(InvokeMesh(w, c, CopiesIn(c, w.meshH)), cs \ {c})

\* ------------------------------------------------- catalog operations
\* assets.add(entry): id becomes registered, with or without its resource.
AssetsAdd(w, id, withResource) ==
    LET w1 == [w EXCEPT !.reg = @ \cup {id},
                        !.loaded = IF withResource THEN @ \cup {id} ELSE @,
                        !.bindCalls = 0]
    IN IF id \in ModelIds THEN FireModelAdd(w1, id, w1.addH[id])
       ELSE FireMaterialAdd(w1, id, w1.matAddH[id])

\* The completion of a load: the entry has its resource, 'load' is fired.
AssetsLoaded(w, id) ==
    LET w1 == [w EXCEPT !.loaded = @ \cup {id}, !.loading = @ \ {id}]
    IN IF id \in ModelIds THEN FireAssetLoad(w1, id, w1.entryH[id])
       ELSE FireMesh(FireMaterialLoad(w1, id, w1.matH[id]),
                     MeshClosures(w1, "load", id))

\* asset.unload(): 'unload' is fired, then the resource is dropped.
AssetUnload(w, id) ==
    LET w1 == IF id \in ModelIds THEN FireAssetUnload(w, id, w.entryH[id])
              ELSE FireMaterialUnload(w, id, w.matH[id])
    IN [w1 EXCEPT !.loaded = @ \ {id}]

\* assets.remove(entry): the entry leaves the catalog, then 'remove' is fired
\* on the entry and on the catalog.
AssetsRemove(w, id) ==
    LET w1 == [w EXCEPT !.reg = @ \ {id}]
        w2 == IF id \in ModelIds THEN FireAssetRemove(w1, id, w1.entryH[id])
              ELSE FireMesh(FireMaterialRemove(w1, id, w1.matH[id]),
                            MeshClosures(w1, "remove", id))
    IN [w2 EXCEPT !.loaded = @ \ {id}, !.loading = @ \ {id}]

\* ---------------------------------------------------------------- actions
\* A step of an operation other than a registration.
Step(w) == Commit([w EXCEPT !.bindCalls = 0])

\* component.asset = v
SetAsset(ids) == \E v \in ids : ~removed /\ Step(AssetSet(World, v))

\* component.type = t
SetType(types) == \E t \in types : ~removed /\ Step(TypeSet(World, t))

\* component.model = null
SetModelNull == ~removed /\ Step(ModelSet(World, Null))

\* component.model = component.model
SetModelSelf == ~removed /\ model # Null /\ Step(ModelSet(World, model))

\* component.model = an instance built outside the component
SetModelFresh ==
    LET m == FreshInst(World)
    IN /\ ~removed
       /\ m # 0
       /\ Step(ModelSet([World EXCEPT !.inst[m] =
                             NewInstance(Direct, Null, 1, OwnMaterial)], m))

\* component.enabled = v
SetEnabled == \E v \in BOOLEAN : ~removed /\ Step(EnabledSet(World, v))

\* entity.enabled = v
SetEntityEnabled == \E v \in BOOLEAN : ~removed /\ Step(EntityEnabledSet(World, v))

\* component.remove()
DoRemove == ~removed /\ Step(Remove(World))

\* assets.add
CatalogAdd(ids) ==
    \E id \in ids, r \in BOOLEAN : id \notin reg /\ Commit(AssetsAdd(World, id, r))

\* assets.load called from outside the component
CatalogRequestLoad(ids) ==
    \E id \in ids :
        /\ id \in reg /\ id \notin loaded /\ id \notin loading
        /\ Step(Load(World, id))

\* a load completes
CatalogLoad(ids) ==
    \E id \in ids : id \in reg /\ id \in loading /\ Step(AssetsLoaded(World, id))

\* asset.unload
CatalogUnload(ids) ==
    \E id \in ids : id \in reg /\ id \in loaded /\ Step(AssetUnload(World, id))

\* assets.remove
CatalogRemove(ids) ==
    \E id \in ids : id \in reg /\ Step(AssetsRemove(World, id))

\* component.mapping = a table with values from vals
SetMapping(vals) ==
    \E mp \in [MeshIdx -> vals] : ~removed /\ Step(MappingSet(World, mp))

\* component.materialAsset = null, an id, or the pc.Asset of a registered id
SetMaterialAsset(ids) ==
    \E v \in {Null} \cup ids, isObj \in BOOLEAN :
        /\ ~removed
        /\ isObj => v \in reg
        /\ Step(MaterialAssetSet(World, v, isObj))

\* the render flags
SetCastShadows == \E v \in BOOLEAN : ~removed /\ Step(CastShadowsSet(World, v))

SetReceiveShadows == \E v \in BOOLEAN : ~removed /\ Step(ReceiveShadowsSet(World, v))

SetLightmapped == \E v \in BOOLEAN : ~removed /\ Step(LightmappedSet(World, v))

SetIsStatic == \E v \in BOOLEAN : ~removed /\ Step(IsStaticSet(World, v))

\* component.meshInstances = an array of n mesh instances built outside
SetMeshInstances ==
    \E n \in 1..MeshCount :
        /\ ~removed
        /\ Step(MeshInstancesSet(World, [k \in 1..n |-> NewMesh(OwnMaterial)]))

\* component.batchGroupId = v
SetBatchGroupId ==
    \E v \in BatchGroupIds : ~removed /\ Step(BatchGroupIdSet(World, v))

\* The batching collaborator takes the model of a grouped component out of
\* the scene.
BatcherRemoves ==
    /\ batchGroupId >= 0 /\ model # Null /\ model \in drawSet
    /\ Step(RemoveModel(World, model))

\* ------------------------------------------------- ComponentSystemRegistry
\* Names handed to add and remove: names of component systems, and names that
\* are members of the registry object itself.
SystemNames == {"model", "button"}

ProtoMembers == {"add", "remove", "list"}   \* functions of the prototype

OwnMembers == {"_list"}                     \* set by the constructor

Names == SystemNames \cup ProtoMembers \cup OwnMembers

Systems == {"s1", "s2"}                     \* component system objects

NoSystem == "none"

NoName == ""

\* The value of the _list property: the array of the constructor, undefined
\* once the property is deleted, or a system stored under the name '_list'.
ListArray(items) == [kind |-> "array", items |-> items, sys |-> NoSystem]

ListUndefined == [kind |-> "undefined", items |-> <<>>, sys |-> NoSystem]

ListSystem(sys) == [kind |-> "system", items |-> <<>>, sys |-> sys]

\* The registry as one record, at the start of a call.
Registry ==
    [map |-> regMap, list |-> regList, names |-> sysName, threw |-> FALSE]

\* The state after the constructor of the registry.
InitRegistry ==
    /\ regMap = [n \in SystemNames |-> NoSystem]
    /\ regList = ListArray(<<>>)
    /\ sysName = [x \in Systems |-> NoName]
    /\ regThrew = FALSE

\* this[name], as the conditions of add and remove see it.
Truthy(r, name) ==
    IF name \in ProtoMembers THEN TRUE
    ELSE IF name \in OwnMembers THEN r.list.kind # "undefined"
    ELSE r.map[name] # NoSystem

\* this[name] = system and system.name = name
Assign(r, name, system) ==
    LET r1 == [r EXCEPT !.names[system] = name]
    IN IF name \in OwnMembers THEN [r1 EXCEPT !.list = ListSystem(system)]
       ELSE [r1 EXCEPT !.map[name] = system]

\* add(name, system): a call of push on a _list that is no array is a TypeError.
RegistryAdd(r, name, system) ==
    IF ~Truthy(r, name)
    THEN LET r1 == Assign(r, name, system)
         IN IF r1.list.kind = "array"
            THEN [r1 EXCEPT !.list.items = Append(@, system)]
            ELSE [r1 EXCEPT !.threw = TRUE]
    ELSE [r EXCEPT !.threw = TRUE]

\* this._list.indexOf(this[name]), 0-based, -1 when the value is not in the
\* array (a function of the prototype and the array itself never are).
IndexOf(r, name) ==
    LET items == r.list.items
        hits == IF name \in SystemNames
                THEN {k \in 1..Len(items) : items[k] = r.map[name]} ELSE {}
    IN IF hits = {} THEN -1
       ELSE (CHOOSE k \in hits : \A j \in hits : k <= j) - 1

\* array.splice(i, 1): a negative i counts from the end of the array.
Splice(items, i) ==
    LET n == Len(items)
        at == IF i < 0 THEN (IF n + i < 0 THEN 0 ELSE n + i) ELSE i
    IN [k \in 1..(IF at < n THEN n - 1 ELSE n) |->
            IF k <= at THEN items[k] ELSE items[k + 1]]

\* delete this[name]: own properties go, members of the prototype stay.
Delete(r, name) ==
    IF name \in ProtoMembers THEN r
    ELSE IF name \in OwnMembers THEN [r EXCEPT !.list = ListUndefined]
    ELSE [r EXCEPT !.map[name] = NoSystem]

\* remove(name)
RegistryRemove(r, name) ==
    IF ~Truthy(r, name) THEN [r EXCEPT !.threw = TRUE]
    ELSE IF r.list.kind # "array" THEN [r EXCEPT !.threw = TRUE]
    ELSE Delete([r EXCEPT !.list.items = Splice(@, IndexOf(r, name))], name)

\* list()
RegistryList(r) == r.list

\* The step of the registry to r.
RegistryCommit(r) ==
    /\ regMap' = r.map /\ regList' = r.list
    /\ sysName' = r.names /\ regThrew' = r.threw
    /\ UNCHANGED <<componentVars, buttonVars>>

\* registry.add(name, system)
DoRegistryAdd ==
    \E name \in Names, system \in Systems :
        RegistryCommit(RegistryAdd(Registry, name, system))

\* registry.remove(name)
DoRegistryRemove ==
    \E name \in Names : RegistryCommit(RegistryRemove(Registry, name))

\* ------------------------------------------------------- pc.ButtonComponent
\* The channel value 1 of new pc.Color(1, 1, 1, 1), on a scale of 0 .. ColorOne.
ColorOne == 2

\* A pc.Color: its three colour channels (kept equal) and its alpha.
Color(rgb, a) == [rgb |-> rgb, a |-> a]

\* The colours, opacities, sprite assets and frames that code outside the
\* button gives the image element.
OutsideValues ==
    [color |-> {0, ColorOne}, opacity |-> {1, ColorOne},
     spriteAsset |-> {Null, 4}, spriteFrame |-> {0, 1}]

NoTween == [on |-> FALSE, from |-> Color(0, 0), to |-> Color(0, 0)]

\* The button and its image element as one record, at the start of a handler.
Button ==
    [visualState |-> visualState, isHovering |-> isHovering, isPressed |-> isPressed,
     defaultTint |-> defaultTint, defaultSpriteAsset |-> defaultSpriteAsset,
     defaultSpriteFrame |-> defaultSpriteFrame, isApplyingTint |-> isApplyingTint,
     isApplyingSprite |-> isApplyingSprite, tweenInfo |-> tweenInfo,
     active |-> active, enabled |-> btnEnabled, transitionMode |-> transitionMode,
     fadeDuration |-> fadeDuration, hoverTint |-> hoverTint,
     hasElement |-> hasElement, elColor |-> elColor, elOpacity |-> elOpacity,
     elSpriteAsset |-> elSpriteAsset, elSpriteFrame |-> elSpriteFrame]

\* The state after the constructor of pc.ButtonComponent, with the property
\* defaults of the component data and no image entity yet.
InitButton ==
    /\ visualState = "DEFAULT" /\ isHovering = FALSE /\ isPressed = FALSE
    /\ defaultTint = Color(ColorOne, ColorOne)
    /\ defaultSpriteAsset = Null /\ defaultSpriteFrame = 0
    /\ isApplyingTint = FALSE /\ isApplyingSprite = FALSE /\ tweenInfo = NoTween
    /\ active = TRUE /\ btnEnabled = TRUE /\ transitionMode = "TINT"
    /\ fadeDuration = 0 /\ hoverTint = Color(0, ColorOne)
    /\ hasElement = FALSE /\ elColor = ColorOne /\ elOpacity = ColorOne
    /\ elSpriteAsset = Null /\ elSpriteFrame = 0

Init == InitModelComponent /\ InitRegistry /\ InitButton

\* this[STATES_TO_TINT_NAMES[state]]
StateTint(b, state) ==
    CASE state = "DEFAULT" -> b.defaultTint
      [] state = "HOVER" -> b.hoverTint
      [] state = "PRESSED" -> Color(1, ColorOne)
      [] state = "INACTIVE" -> Color(0, 1)

\* this[STATES_TO_SPRITE_ASSET_NAMES[state]] and this[STATES_TO_SPRITE_FRAME_NAMES[state]]
StateSprite(b, state) ==
    CASE state = "DEFAULT" -> [asset |-> b.defaultSpriteAsset, frame |-> b.defaultSpriteFrame]
      [] state = "HOVER" -> [asset |-> 1, frame |-> 1]
      [] state = "PRESSED" -> [asset |-> 2, frame |-> 0]
      [] state = "INACTIVE" -> [asset |-> 3, frame |-> 1]

DetermineVisualState(b) ==
    IF ~b.active THEN "INACTIVE"
    ELSE IF b.isPressed THEN "PRESSED"
    ELSE IF b.isHovering THEN "HOVER"
    ELSE "DEFAULT"

CancelTween(b) == [b EXCEPT !.tweenInfo = NoTween]

RECURSIVE UpdateVisualState(_, _)

\* _onSetColor, _onSetOpacity, _onSetSpriteAsset and _onSetSpriteFrame: the
\* handlers of the element's set:<prop> events.
OnSetStoresAlways(b, prop, value) ==
    LET stored ==
            CASE prop = "color" -> [b EXCEPT !.defaultTint.rgb = value]
              [] prop = "opacity" -> [b EXCEPT !.defaultTint.a = value]
              [] prop = "spriteAsset" -> [b EXCEPT !.defaultSpriteAsset = value]
              [] prop = "spriteFrame" -> [b EXCEPT !.defaultSpriteFrame = value]
        applying ==
            IF prop \in {"color", "opacity"} THEN b.isApplyingTint
            ELSE b.isApplyingSprite
    IN  IF ~applying THEN UpdateVisualState(stored, TRUE) ELSE stored

OnSet(b, prop, value) ==
    LET stored ==
            CASE prop = "color" -> [b EXCEPT !.defaultTint.rgb = value]
              [] prop = "opacity" -> [b EXCEPT !.defaultTint.a = value]
              [] prop = "spriteAsset" -> [b EXCEPT !.defaultSpriteAsset = value]
              [] prop = "spriteFrame" -> [b EXCEPT !.defaultSpriteFrame = value]
        applying ==
            IF prop \in {"color", "opacity"} THEN b.isApplyingTint
            ELSE b.isApplyingSprite
    IN  IF ~applying THEN UpdateVisualState(stored, TRUE) ELSE b

\* element[prop] = value: the element takes the value and fires set:<prop>,
\* which the entity reference delivers to the button's handler.
ElementSet(b, prop, value) ==
    LET written ==
            CASE prop = "color" -> [b EXCEPT !.elColor = value]
              [] prop = "opacity" -> [b EXCEPT !.elOpacity = value]
              [] prop = "spriteAsset" -> [b EXCEPT !.elSpriteAsset = value]
              [] prop = "spriteFrame" -> [b EXCEPT !.elSpriteFrame = value]
    IN  OnSet(written, prop, value)

\* _applySprite; the frames of the model are numbers, so spriteFrame || 0 is
\* the frame itself.
ApplySprite(b, spriteAsset, spriteFrame) ==
    IF b.hasElement
    THEN LET b1 == [b EXCEPT !.isApplyingSprite = TRUE]
             b2 == ElementSet(b1, "spriteAsset", spriteAsset)
             b3 == ElementSet(b2, "spriteFrame", spriteFrame)
         IN  [b3 EXCEPT !.isApplyingSprite = FALSE]
    ELSE b

\* _applyTintImmediately; every tint of the model is a colour, never undefined.
ApplyTintImmediately(b, tintColor) ==
    IF b.hasElement
    THEN LET b1 == [b EXCEPT !.isApplyingTint = TRUE]
             b2 == ElementSet(b1, "color", tintColor.rgb)
             b3 == ElementSet(b2, "opacity", tintColor.a)
         IN  [b3 EXCEPT !.isApplyingTint = FALSE]
    ELSE b

ApplyTintWithTween(b, tintColor) ==
    IF b.hasElement
    THEN [b EXCEPT !.tweenInfo =
              [on |-> TRUE, from |-> Color(b.elColor, b.elOpacity), to |-> tintColor]]
    ELSE b

ApplyTint(b, tintColor) ==
    LET b1 == CancelTween(b)
    IN  IF b1.fadeDuration = 0 THEN ApplyTintImmediately(b1, tintColor)
        ELSE ApplyTintWithTween(b1, tintColor)

UpdateVisualStateIgnoresEnabled(b, force) ==
    LET newVisualState == DetermineVisualState(b)
    IN  IF b.visualState # newVisualState \/ force
        THEN LET b1 == [b EXCEPT !.visualState = newVisualState]
             IN  IF b1.transitionMode = "TINT"
                 THEN ApplyTint(b1, StateTint(b1, newVisualState))
                 ELSE ApplySprite(b1, StateSprite(b1, newVisualState).asset,
                                  StateSprite(b1, newVisualState).frame)
        ELSE b

UpdateVisualState(b, force) ==
    LET newVisualState == DetermineVisualState(b)
    IN  IF (b.visualState # newVisualState \/ force) /\ b.enabled
        THEN LET b1 == [b EXCEPT !.visualState = newVisualState]
             IN  IF b1.transitionMode = "TINT"
                 THEN ApplyTint(b1, StateTint(b1, newVisualState))
                 ELSE ApplySprite(b1, StateSprite(b1, newVisualState).asset,
                                  StateSprite(b1, newVisualState).frame)
        ELSE b

ResetToDefaultVisualState(b, mode) ==
    IF b.hasElement
    THEN IF mode = "TINT"
         THEN ApplyTintImmediately(CancelTween(b), b.defaultTint)
         ELSE ApplySprite(b, b.defaultSpriteAsset, b.defaultSpriteFrame)
    ELSE b

\* _onUpdate and _updateTintTween; ended says whether the fade duration has
\* elapsed since the tween's start time, and a tween that has not ended shows
\* the colour halfway between its two ends.
OnUpdate(b, ended) ==
    LET from == b.tweenInfo.from
        to == b.tweenInfo.to
        lerp == Color((from.rgb + to.rgb) \div 2, (from.a + to.a) \div 2)
    IN  IF ~b.tweenInfo.on THEN b
        ELSE IF ended \/ b.fadeDuration = 0
             THEN CancelTween(ApplyTintImmediately(b, to))
             ELSE ApplyTintImmediately(b, lerp)

InputEvents ==
    {"mouseenter", "mouseleave", "mousedown", "mouseup",
     "touchstart", "touchend", "touchleave", "touchcancel"}

\* _onMouseEnter .. _onTouchCancel
OnInput(b, event) ==
    LET b1 ==
            CASE event = "mouseenter" -> [b EXCEPT !.isHovering = TRUE]
              [] event = "mouseleave" ->
                    [b EXCEPT !.isHovering = FALSE, !.isPressed = FALSE]
              [] event \in {"mousedown", "touchstart"} -> [b EXCEPT !.isPressed = TRUE]
              [] OTHER -> [b EXCEPT !.isPressed = FALSE]
    IN  UpdateVisualState(b1, FALSE)

\* button.active = value and _onSetActive
OnSetActive(b, value) ==
    LET b1 == [b EXCEPT !.active = value]
    IN  IF b.active # value THEN UpdateVisualState(b1, FALSE) ELSE b1

\* button.transitionMode = value and _onSetTransitionMode
OnSetTransitionMode(b, value) ==
    LET b1 == [b EXCEPT !.transitionMode = value]
    IN  IF b.transitionMode # value
        THEN UpdateVisualState(
                 ResetToDefaultVisualState(CancelTween(b1), b.transitionMode), TRUE)
        ELSE b1

\* button.hoverTint = value and _onSetTransitionValue
OnSetTransitionValue(b, value) ==
    LET b1 == [b EXCEPT !.hoverTint = value]
    IN  IF b.hoverTint # value THEN UpdateVisualState(b1, TRUE) ELSE b1

\* button.enabled = value: the flag, then onEnable or onDisable
ButtonSetEnabled(b, value) ==
    LET b1 == [b EXCEPT !.enabled = value]
    IN  IF b.enabled = value THEN b1
        ELSE IF value THEN UpdateVisualState(b1, TRUE)
        ELSE ResetToDefaultVisualState(b1, b1.transitionMode)

\* The image entity gains an element with the given values: _onImageElementGain
OnImageElementGain(b, e) ==
    LET b1 == [b EXCEPT !.hasElement = TRUE, !.elColor = e.color,
                        !.elOpacity = e.opacity, !.elSpriteAsset = e.spriteAsset,
                        !.elSpriteFrame = e.spriteFrame]
        b2 == [b1 EXCEPT !.defaultTint = Color(e.color, e.opacity),
                         !.defaultSpriteAsset = e.spriteAsset,
                         !.defaultSpriteFrame = e.spriteFrame]
    IN  UpdateVisualState(b2, TRUE)

\* The image entity loses its element: _onImageElementLose runs while the
\* element is still there; what the element held is forgotten with it.
OnImageElementLose(b) ==
    LET b1 == ResetToDefaultVisualState(CancelTween(b), b.transitionMode)
    IN  [b1 EXCEPT !.hasElement = FALSE, !.elColor = ColorOne, !.elOpacity = ColorOne,
                   !.elSpriteAsset = Null, !.elSpriteFrame = 0]

\* The step of the button to b.
ButtonCommit(button) ==
    \E b \in {button} :
    /\ visualState' = b.visualState /\ isHovering' = b.isHovering
    /\ isPressed' = b.isPressed /\ defaultTint' = b.defaultTint
    /\ defaultSpriteAsset' = b.defaultSpriteAsset
    /\ defaultSpriteFrame' = b.defaultSpriteFrame
    /\ isApplyingTint' = b.isApplyingTint /\ isApplyingSprite' = b.isApplyingSprite
    /\ tweenInfo' = b.tweenInfo /\ active' = b.active /\ btnEnabled' = b.enabled
    /\ transitionMode' = b.transitionMode /\ fadeDuration' = b.fadeDuration
    /\ hoverTint' = b.hoverTint /\ hasElement' = b.hasElement
    /\ elColor' = b.elColor /\ elOpacity' = b.elOpacity
    /\ elSpriteAsset' = b.elSpriteAsset /\ elSpriteFrame' = b.elSpriteFrame
    /\ UNCHANGED <<componentVars, registryVars>>

\* ------------------------------------------------------------------ claims
\* The ids for which the model slot holds a handler with the catalog.
ModelSlotIds == {id \in ModelIds : entryH[id] > 0 \/ addH[id] > 0}

\* C1: the model slot holds catalog subscriptions (the entry's handlers and the
\* pending 'add:<id>' handler) for at most one asset id at a time.
C1_ModelSlotOneId == Cardinality(ModelSlotIds) <= 1

\* C2: assigning the asset reference the value it already has is a no-op: no
\* subscription is removed or added, and the active model and its scene
\* membership stay as they are.
C2_SameAssetIsNoOp ==
    LET w == AssetSet(World, asset)
    IN ~removed =>
          /\ w.entryH = entryH /\ w.addH = addH
          /\ w.model = model /\ w.drawSet = drawSet /\ w.shadowSet = shadowSet
          /\ w.children = children

\* C3: the registration of an id runs the binding step (_onModelAsset for the
\* new entry) at most once, and it leaves the slot bound to the entry when the
\* reference is that id.
C3_BindOncePerRegistration == bindCalls <= 1

\* C7: when remove() is called while the active model is a private clone,
\* the clone is destroyed and taken out of the scene.
C7_RemoveReleasesClone ==
    [][(~removed /\ removed' /\ model # Null /\ inst[model].origin = Clone)
          => (inst'[model].destroyed >= 1 /\ model \notin drawSet')]_vars

\* C8: an instance handed to the model property from outside is never
\* destroyed by the component.
C8_DirectNeverDestroyed ==
    \A m \in InstIds : inst[m].origin = Direct => inst[m].destroyed = 0

\* C9: when the active model is replaced by another instance or by null, the
\* old instance is out of the draw set, is no child of the entity, has its
\* back-reference cleared and, if it is a private clone, has been destroyed
\* exactly once; the scene, the entity's children and the back-references
\* hold at most the active model.
C9_Step ==
    (model # Null /\ model' # model) =>
        /\ model \notin drawSet' /\ model \notin shadowSet'
        /\ model \notin children' /\ model \notin entityRef'
        /\ inst[model].origin = Clone => inst'[model].destroyed = 1

C9_AtMostActive ==
    \A m \in drawSet \cup shadowSet \cup children \cup entityRef : m = model

C9_ReplacedModelReleased == [](C9_AtMostActive) /\ [][C9_Step]_vars

\* C4: every per-mesh handler registered with the catalog is recorded in the
\* ledger, once, so that _unsetMaterialEvents removes it and no later event
\* invokes it.
C4_LedgerCoversHandlers ==
    \A c \in BagToSet(meshH) : c \in materialEvents /\ CopiesIn(c, meshH) = 1

\* C5: the whole-component material slot holds handlers for no id but the
\* current material asset reference.
C5_MaterialSlotOneId ==
    \A id \in MatIds : (matH[id] > 0 \/ matAddH[id] > 0) => id = materialAsset

\* C6: after remove() no handler of the component is subscribed for any slot.
C6_NoHandlerAfterRemove ==
    removed =>
        /\ \A id \in ModelIds : entryH[id] = 0 /\ addH[id] = 0
        /\ \A id \in MatIds : matH[id] = 0 /\ matAddH[id] = 0
        /\ meshH = EmptyBag

\* C10: every mesh instance of the active model carries the component's
\* render flags.
C10_FlagsMirrored ==
    model # Null =>
        \A k \in DOMAIN inst[model].meshes :
            LET mi == inst[model].meshes[k]
            IN /\ mi.castShadow = castShadows
               /\ mi.receiveShadow = receiveShadows
               /\ mi.isStatic = isStatic
               /\ mi.baked = lightmapped

\* C11: the active model is in the scene's draw set exactly when the component
\* and its entity are both enabled; with no model, the draw set holds nothing
\* of the component.
C11_InSceneIffEnabled ==
    /\ model # Null => (model \in drawSet <=> (enabled /\ entityEnabled))
    /\ model = Null => drawSet = {}

\* A model is present and out of the scene because the component or the
\* entity is disabled.
C11_Witness ==
    /\ model # Null /\ model \notin drawSet /\ ~(enabled /\ entityEnabled)
    /\ inst[model].origin = Clone

\* C12: for an enabled component with a model and no dirty flag, disabling and
\* re-enabling it leaves the model's membership of the draw set and of the
\* shadow-caster set as it was; when castShadows is assigned in between, the
\* shadow-caster membership is that of the new flag.
C12_RoundTrip ==
    (model # Null /\ enabled /\ entityEnabled /\ ~removed
        /\ ~dirtyModelAsset /\ ~dirtyMaterialAsset) =>
        LET d == EnabledSet(World, FALSE)
            e == EnabledSet(d, TRUE)
        IN /\ e.drawSet = drawSet /\ e.shadowSet = shadowSet
           /\ \A v \in BOOLEAN :
                  LET f == EnabledSet(CastShadowsSet(d, v), TRUE)
                  IN f.drawSet = drawSet /\ (model \in f.shadowSet <=> v)

\* C13: castShadows = v sets castShadow to v on every mesh instance of the
\* model and leaves the draw set alone; on a model in the scene, true -> false
\* takes the model out of the shadow-caster set and false -> true puts it in;
\* when the model is not in the scene or the value does not change, the
\* shadow-caster set is left as it is.
C13_CastShadowsEffect ==
    \A v \in BOOLEAN :
        LET w == CastShadowsSet(World, v)
            inScene == model # Null /\ model \in drawSet
        IN /\ w.castShadows = v
           /\ w.drawSet = drawSet
           /\ model # Null =>
                  \A k \in DOMAIN w.inst[model].meshes :
                      w.inst[model].meshes[k].castShadow = v
           /\ (inScene /\ castShadows /\ ~v) => w.shadowSet = shadowSet \ {model}
           /\ (inScene /\ ~castShadows /\ v) => w.shadowSet = shadowSet \cup {model}
           /\ (~inScene \/ v = castShadows) => w.shadowSet = shadowSet

\* castShadows went from true to false on a clone with several mesh instances
\* that is in the scene.
C13_Witness ==
    /\ model # Null /\ model \in drawSet /\ ~castShadows /\ model \notin shadowSet
    /\ Len(inst[model].meshes) = MeshCount
    /\ \A k \in DOMAIN inst[model].meshes : ~inst[model].meshes[k].castShadow

\* C14: batchGroupId = v adds the active model to the scene exactly when the
\* old value is >= 0, v is < 0 and the component and its entity are enabled;
\* otherwise the scene is left as it is; null is never handed to the scene.
C14_BatchGroupReAdd ==
    \A v \in BatchGroupIds :
        LET w == BatchGroupIdSet(World, v)
            readd == batchGroupId >= 0 /\ v < 0 /\ enabled /\ entityEnabled
        IN /\ w.batchGroupId = v
           /\ (readd /\ model # Null) => model \in w.drawSet
           /\ ~readd => (w.drawSet = drawSet /\ w.shadowSet = shadowSet)
           /\ Null \notin w.drawSet

\* The material of mesh index i (0-based) of the active model in world w.
MeshMaterial(w, i) == w.inst[w.model].meshes[i + 1].material

\* The mesh indices of the active model in world w.
ModelMeshIdx(w) == {i \in MeshIdx : (i + 1) \in DOMAIN w.inst[w.model].meshes}

\* The catalog-declared default of mesh index i in world w: Undefined when the
\* model asset is not set, not registered, or declares nothing for i.
CatalogDefault(w, i) ==
    IF w.asset # Null /\ Get(w, w.asset) # Null /\ HasAssetMapping(w.asset)
    THEN AssetMapping(w.asset, i) ELSE Undefined

\* C15: after the mapping is resolved for an asset-type component with a
\* model, every mesh index with no override in the table and no catalog
\* default has the default material, and the ledger holds nothing for it.
C15_NoMappingIsDefault ==
    (type = "asset" /\ model # Null) =>
        \A mp \in [MeshIdx -> {Undefined, 3}] :
            LET w == MappingSet(World, mp)
            IN \A i \in ModelMeshIdx(w) :
                   (mp[i] = Undefined /\ CatalogDefault(w, i) = Undefined) =>
                       /\ MeshMaterial(w, i) = DEFAULT_MATERIAL
                       /\ \A c \in w.materialEvents : c.idx # i

\* C16: when the override of a mesh index is an id or a path that matches no
\* catalog entry, resolution falls through: the mesh gets the default material
\* when there is no catalog default for the index, and the resource of the
\* catalog default when that is loaded.
C16_UnresolvedFallsThrough ==
    (type = "asset" /\ model # Null) =>
        \A i \in ModelMeshIdx(World), v \in {3, PathOf(3)} :
            GetAssetByIdOrPath(World, v) = Null =>
                LET w == MappingSet(World, [NoMapping EXCEPT ![i] = v])
                    d == CatalogDefault(w, i)
                IN /\ d = Undefined => MeshMaterial(w, i) = DEFAULT_MATERIAL
                   /\ (d # Undefined /\ d \in w.loaded) => MeshMaterial(w, i) = d

\* C17: a mesh index mapped to a path that no catalog entry has yet shows the
\* default material; when an entry with that path is registered with its
\* resource, the mesh gets that resource and the other meshes keep theirs.
C17_Shown ==
    (type = "asset" /\ model # Null /\ HasMaterialAssetUrl(World) /\ 3 \notin reg) =>
        \A i \in ModelMeshIdx(World) :
            MeshMaterial(MappingSet(World, [NoMapping EXCEPT ![i] = PathOf(3)]), i)
                = DEFAULT_MATERIAL

C17_Step ==
    (/\ 3 \notin reg /\ 3 \in reg' /\ 3 \in loaded'
     /\ type = "asset" /\ model # Null /\ model' = model
     /\ HasMaterialAssetUrl(World) /\ assetOld = asset) =>
        \A i \in ModelMeshIdx(World) :
            inst'[model].meshes[i + 1].material =
                IF mapping[i] = PathOf(3) THEN 3 ELSE MeshMaterial(World, i)

C17_DeferredByPath == [](C17_Shown) /\ [][C17_Step]_vars

\* C18: when the reference of a mesh index resolves to an entry that is
\* registered and not loaded, a load of the entry is requested and the mesh has
\* the default material until the load completes.
C18_InterimDefault ==
    (type = "asset" /\ model # Null /\ 3 \in reg /\ 3 \notin loaded) =>
        \A i \in ModelMeshIdx(World) :
            LET w == MappingSet(World, [NoMapping EXCEPT ![i] = 3])
            IN 3 \in w.loading /\ MeshMaterial(w, i) = DEFAULT_MATERIAL

\* C19: when the load of the entry mapped to a mesh index completes, with the
\* mapping and the model unchanged since the resolution (the load closure is
\* still in the ledger), the mesh instance gets the entry's resource: at the
\* step that completes the load, and so eventually once a load is in flight.
LoadPending(i) ==
    /\ type = "asset" /\ model # Null /\ 3 \in loading
    /\ Closure("load", 3, model, i) \in materialEvents

LoadApplied(i) ==
    /\ model # Null /\ i \in ModelMeshIdx(World)
    /\ MeshMaterial(World, i) = 3

C19_Step ==
    \A i \in MeshIdx :
        (LoadPending(i) /\ 3 \in loaded' /\ model' = model) =>
            inst'[model].meshes[i + 1].material = 3

C19_LoadApplies ==
    /\ [][C19_Step]_vars
    /\ \A i \in MeshIdx :
           LoadPending(i) ~>
               (LoadApplied(i) \/ Closure("load", 3, model, i) \notin materialEvents)

\* The load of asset 3 has completed and mesh 0 of the model, mapped to it
\* while it was not loaded, carries its resource.
C19_Witness ==
    /\ model # Null /\ 3 \in loaded /\ mapping[0] = 3
    /\ Closure("load", 3, model, 0) \in materialEvents
    /\ MeshMaterial(World, 0) = 3

\* C20: when the entry bound to a mesh index (its load or remove closure is
\* in the ledger) is removed from the catalog, loaded or with its load in
\* flight, the mesh instance has the default material afterwards.
C20_Step ==
    \A i \in MeshIdx :
        (/\ 3 \in reg /\ 3 \notin reg'
         /\ type = "asset" /\ model # Null /\ model' = model
         /\ \E e \in {"load", "remove"} : Closure(e, 3, model, i) \in materialEvents) =>
            inst'[model].meshes[i + 1].material = DEFAULT_MATERIAL

C20_RemovedIsDefault == [][C20_Step]_vars

\* C21: after the type goes from 'asset' to a primitive, the asset reference
\* is null, the model slot holds no handler (the pending 'add:<id>' handler
\* included), no per-mesh handler remains, and the active model has exactly
\* one mesh instance, with the component's material; a later registration or
\* load of a model asset leaves the active model as it is.
C21_Effect ==
    (type = "asset" /\ ~removed) =>
        \A p \in Primitives :
            LET w == TypeSet(World, p)
            IN ~w.overflow =>
                  /\ w.asset = Null
                  /\ \A id \in ModelIds : w.entryH[id] = 0 /\ w.addH[id] = 0
                  /\ w.materialEvents = {} /\ w.meshH = EmptyBag
                  /\ w.model # Null
                  /\ Len(w.inst[w.model].meshes) = 1
                  /\ w.inst[w.model].meshes[1].material = w.material

C21_Later ==
    (/\ type \in Primitives /\ type' = type
     /\ reg \subseteq reg' /\ loaded \subseteq loaded'
     /\ (reg' # reg \/ loaded' # loaded)) =>
        model' = model

C21_PrimitiveDropsAsset == [](C21_Effect) /\ [][C21_Later]_vars

\* C22: the assignment of a value that is no model type to type throws
\* within the assignment.
C22_InvalidTypeThrows ==
    ~removed => \A v \in InvalidTypes : TypeSet(World, v).threw

\* The component and its entity are both enabled in world w.
Active(w) == w.enabled /\ w.entityEnabled

\* C23: for an asset-type component whose reference is set to a registered
\* entry that is not loaded, a load of the entry is triggered (the component
\* and the entity being enabled); until the load completes the component has
\* no model and nothing in the scene; the step that completes the load makes
\* a clone of the resource the active model, in the scene if the component
\* and the entity are enabled.
C23_Triggered ==
    (~removed /\ type = "asset" /\ Active(World)) =>
        \A a \in ModelIds :
            (a \in reg /\ a \notin loaded /\ asset # a) =>
                LET w == AssetSet(World, a)
                IN ~w.overflow => (w.asset = a /\ a \in w.loading)

C23_Deferred ==
    (type = "asset" /\ asset # Null /\ asset \in reg /\ asset \notin loaded) =>
        (model = Null /\ drawSet = {})

C23_Step ==
    (/\ type = "asset" /\ asset # Null /\ asset \in loading
     /\ asset \in loaded' /\ asset' = asset) =>
        /\ model' # Null
        /\ inst'[model'].origin = Clone /\ inst'[model'].src = asset
        /\ inst'[model'].destroyed = 0
        /\ Active(World) => model' \in drawSet'

C23_LoadThenClone == [](C23_Triggered /\ C23_Deferred) /\ [][C23_Step]_vars

\* C24: when materialAsset is set, by id or by asset object, to a registered
\* entry that is not loaded while component and entity are enabled, a load is
\* requested; when the load of the referenced entry completes, the material
\* is the entry's resource; when the entry is then unloaded or removed, the
\* material is the default material.
C24_Requested ==
    (~removed /\ Active(World)) =>
        \A id \in MatIds, isObj \in BOOLEAN :
            (id \in reg /\ id \notin loaded) =>
                LET w == MaterialAssetSet(World, id, isObj)
                IN ~w.overflow => id \in w.loading

C24_Loaded ==
    \A id \in MatIds :
        (/\ ~removed /\ materialAsset = id /\ materialAsset' = id
         /\ id \in loading /\ id \in loaded') =>
            material' = id

C24_Reverted ==
    \A id \in MatIds :
        (/\ ~removed /\ materialAsset = id /\ materialAsset' \in {id, Null}
         /\ material = id /\ id \in loaded
         /\ (id \notin loaded' \/ id \notin reg')) =>
            material' = DEFAULT_MATERIAL

C24_MaterialAssetSync ==
    [](C24_Requested) /\ [][C24_Loaded /\ C24_Reverted]_vars

\* C25: when the model asset the slot is bound to is unloaded, the active
\* model leaves the scene and the model becomes null, while the asset
\* reference and the handlers of the model slot stay; when the asset is then
\* loaded again, a fresh clone of it is the active model, in the scene exactly
\* when the component and the entity are enabled.
C25_Unload ==
    \A a \in ModelIds :
        (entryH[a] > 0 /\ a \in loaded /\ a \notin loaded' /\ a \in reg') =>
            /\ model' = Null /\ drawSet' = {} /\ shadowSet' = {}
            /\ asset' = asset /\ assetOld' = assetOld
            /\ entryH' = entryH /\ addH' = addH

C25_Reload ==
    \A a \in ModelIds :
        (type = "asset" /\ entryH[a] > 0 /\ a \in loading /\ a \in loaded') =>
            /\ model' # Null /\ inst[model'].origin = Unallocated
            /\ inst'[model'].origin = Clone /\ inst'[model'].src = a
            /\ inst'[model'].destroyed = 0
            /\ model' \in drawSet' <=> Active(World)
            /\ asset' = asset /\ entryH' = entryH

C26_Step ==
    \A a \in ModelIds :
        (a \in reg /\ a \notin reg') =>
            IF asset = a
            THEN /\ asset' = Null /\ model' = Null
                 /\ drawSet' = {} /\ shadowSet' = {}
                 /\ entryH'[a] = 0 /\ addH'[a] = 0
            ELSE /\ asset' = asset /\ assetOld' = assetOld /\ model' = model
                 /\ drawSet' = drawSet /\ shadowSet' = shadowSet
                 /\ entryH' = entryH /\ addH' = addH

C26_RemovedEntryUnbinds == [][C26_Step]_vars

\* C27: a model asset reference set while the component or the entity is
\* disabled requests no load; at the step that makes both enabled, a load of
\* the referenced, registered entry is requested, or a clone of it is the
\* model if it is loaded.
C27_NoLoadWhileDisabled ==
    (~removed /\ type = "asset" /\ ~Active(World)) =>
        \A a \in ModelIds : AssetSet(World, a).loading = loading

C27_OnEnable ==
    (/\ ~removed /\ ~Active(World) /\ enabled' /\ entityEnabled'
     /\ type = "asset" /\ asset # Null /\ asset \in reg) =>
        IF asset \in loaded
        THEN /\ model' # Null /\ inst'[model'].origin = Clone
             /\ inst'[model'].src = asset /\ model' \in drawSet'
        ELSE asset \in loading'

C27_LoadDeferredToEnable == [](C27_NoLoadWhileDisabled) /\ [][C27_OnEnable]_vars

\* C28: the id the model slot is bound to is 0 or the current asset reference,
\* and an active model made by cloning a catalog resource is a clone of the
\* asset with the current reference.
C28_BoundToReference ==
    /\ assetOld \in {0, asset}
    /\ (model # Null /\ inst[model].origin = Clone) => inst[model].src = asset

\* C29: the active model is never an instance on which destroy() has been
\* called.
C29_ActiveNotDestroyed == model # Null => inst[model].destroyed = 0

\* C30: every clone the component has made of a catalog resource is the
\* active model or has been destroyed, and _clonedModel is true exactly when
\* the active model is such a clone.
C30_ClonesAccounted ==
    \A m \in InstIds :
        inst[m].origin = Clone => (m = model \/ inst[m].destroyed >= 1)

C30_FlagIsClone ==
    clonedModel <=> (model # Null /\ inst[model].origin = Clone)

C30_NoCloneDropped == C30_ClonesAccounted /\ C30_FlagIsClone

\* C31: an assignment to type that throws leaves the type, the active model,
\* the asset reference, the handlers of the model slot and the scene as they
\* were.
C31_Step ==
    threw' =>
        /\ type' = type /\ model' = model /\ asset' = asset
        /\ assetOld' = assetOld /\ entryH' = entryH /\ addH' = addH
        /\ materialEvents' = materialEvents /\ meshH' = meshH
        /\ drawSet' = drawSet /\ shadowSet' = shadowSet

C31_ThrowLeavesState == [][C31_Step]_vars

\* A name that add has registered and remove has not removed since.
Registered(name) == name \in SystemNames /\ regMap[name] # NoSystem

\* C32: add(name, system) for a registered name throws and leaves the name
\* map and the list as they are; for a free name of a system it maps the name
\* to the system, sets system.name and appends the system to the list;
\* remove(name) for a name that is not registered throws and changes nothing.
C32_AddRegistered ==
    \A name \in Names, system \in Systems :
        Registered(name) =>
            LET r == RegistryAdd(Registry, name, system)
            IN r.threw /\ r.map = regMap /\ r.list = regList

C32_AddFree ==
    \A name \in SystemNames, system \in Systems :
        ~Registered(name) =>
            LET r == RegistryAdd(Registry, name, system)
            IN /\ ~r.threw
               /\ r.map = [regMap EXCEPT ![name] = system]
               /\ r.names[system] = name
               /\ r.list = ListArray(Append(regList.items, system))

C32_RemoveUnregistered ==
    \A name \in Names :
        ~Registered(name) =>
            LET r == RegistryRemove(Registry, name)
            IN r.threw /\ r.map = regMap /\ r.list = regList

C32_AddRemoveContract ==
    C32_AddRegistered /\ C32_AddFree /\ C32_RemoveUnregistered

\* C33: list() holds exactly the systems that are registered by name, once
\* for each registration, in the order in which they were added: every call
\* leaves the list as it was, appends one system at its end, or takes one
\* system out of it.
C33_Exactly ==
    LET l == RegistryList(Registry)
    IN /\ l.kind = "array"
       /\ \A x \in Systems :
              Cardinality({k \in 1..Len(l.items) : l.items[k] = x})
                  = Cardinality({n \in SystemNames : regMap[n] = x})

C33_Order ==
    LET old == regList.items
        new == regList'.items
    IN \/ new = old
       \/ \E x \in Systems : new = Append(old, x)
       \/ \E k \in 1..Len(old) : new = Splice(old, k - 1)

C33_ListIsRegistered == [](C33_Exactly) /\ [][C33_Order]_vars

\* What the image shows: the element's colour, opacity and sprite, and the
\* tween that is fading it.
Applied(b) ==
    <<b.elColor, b.elOpacity, b.elSpriteAsset, b.elSpriteFrame, b.tweenInfo>>

\* The button after the handler of an input event or of a change of active.
AfterHandlers ==
    {OnInput(Button, event) : event \in InputEvents}
        \cup {OnSetActive(Button, v) : v \in BOOLEAN}

\* C34: while the button component is enabled, after each handler of
\* mouseenter, mouseleave, mousedown, mouseup, touchstart, touchend, touchleave,
\* touchcancel or of a change of active, _visualState is INACTIVE if active is
\* false, otherwise PRESSED if _isPressed, otherwise HOVER if _isHovering,
\* otherwise DEFAULT, and mouseleave clears both flags; while the component is
\* disabled the handlers still update the flags and leave _visualState and the
\* applied tint and sprite as they were.
C34_VisualStateFollowsInput ==
    /\ \A b \in AfterHandlers :
          IF btnEnabled
          THEN b.visualState =
                   (IF ~b.active THEN "INACTIVE"
                    ELSE IF b.isPressed THEN "PRESSED"
                    ELSE IF b.isHovering THEN "HOVER" ELSE "DEFAULT")
          ELSE b.visualState = visualState /\ Applied(b) = Applied(Button)
    /\ \A event \in InputEvents :
          LET b == OnInput(Button, event)
          IN  /\ b.isHovering = (event = "mouseenter"
                                  \/ (isHovering /\ event # "mouseleave"))
              /\ b.isPressed = (event \in {"mousedown", "touchstart"}
                                 \/ (isPressed /\ event = "mouseenter"))

\* C34 witness: an enabled button that a mousedown over it left PRESSED, the
\* pressed tint on its image.
C34_Witness ==
    /\ btnEnabled /\ hasElement /\ active /\ isPressed /\ isHovering
    /\ visualState = "PRESSED" /\ transitionMode = "TINT" /\ fadeDuration = 0
    /\ elColor = 1 /\ elOpacity = ColorOne

\* The stored defaults: _defaultTint, _defaultSpriteAsset, _defaultSpriteFrame.
Defaults(b) == <<b.defaultTint, b.defaultSpriteAsset, b.defaultSpriteFrame>>

\* The button after each of its own writes of the image: a tint applied at
\* once, a sprite applied, a tick of the tween, the restoring of the defaults,
\* and after each handler that leads to such a write.
AfterOwnWrites ==
    {ApplyTintImmediately(Button, StateTint(Button, s)) :
        s \in {"DEFAULT", "HOVER", "PRESSED", "INACTIVE"}}
        \cup {ApplySprite(Button, StateSprite(Button, s).asset, StateSprite(Button, s).frame) :
                 s \in {"DEFAULT", "HOVER", "PRESSED", "INACTIVE"}}
        \cup {OnUpdate(Button, ended) : ended \in BOOLEAN}
        \cup {ResetToDefaultVisualState(Button, mode) : mode \in {"TINT", "SPRITE_CHANGE"}}
        \cup {UpdateVisualState(Button, force) : force \in BOOLEAN}
        \cup {OnImageElementLose(Button)}
        \cup {OnSetTransitionMode(Button, mode) : mode \in {"TINT", "SPRITE_CHANGE"}}
        \cup {ButtonSetEnabled(Button, v) : v \in BOOLEAN}

C35_OwnWrites == \A b \in AfterOwnWrites : Defaults(b) = Defaults(Button)

C35_Step ==
    Defaults(Button)' # Defaults(Button) =>
        \/ ~hasElement /\ hasElement'
        \/ /\ hasElement
           /\ \E prop \in DOMAIN OutsideValues : \E value \in OutsideValues[prop] :
                 Button' = ElementSet(Button, prop, value)

\* C35: the stored default tint and default sprite change only on a colour,
\* opacity or sprite write of the image element from outside the button or on
\* gaining an image element; the button's own writes of the image (a state tint
\* applied at once or by a tween step, a state sprite, the restored defaults)
\* leave the stored defaults as they were.
C35_DefaultsOnlyFromOutside == [](C35_OwnWrites) /\ [][C35_Step]_vars

\* C35 witness: the hover tint is on the image of a button whose stored default
\* tint came from an outside write, and differs from what the image shows.
C35_Witness ==
    /\ hasElement /\ btnEnabled /\ visualState = "HOVER" /\ transitionMode = "TINT"
    /\ ~tweenInfo.on /\ Color(elColor, elOpacity) = hoverTint
    /\ defaultTint # hoverTint /\ defaultTint # Color(ColorOne, ColorOne)

\* ---------------------------------------------------------- specifications
\* The model slot: assignments of the asset reference (two ids and null) and
\* the catalog's events on the model assets.
NextBind ==
    \/ SetAsset({Null} \cup ModelIds)
    \/ CatalogAdd(ModelIds)
    \/ CatalogRequestLoad(ModelIds)
    \/ CatalogLoad(ModelIds)
    \/ CatalogUnload(ModelIds)
    \/ CatalogRemove(ModelIds)

SpecBind == Init /\ [][NextBind]_vars

\* Ownership of the active model: the asset reference, the type (the values
\* 'asset' and 'box', and a falsy value), the model property, remove(), and
\* the registration, load and unload of the model assets.
NextOwn ==
    \/ SetAsset({Null} \cup ModelIds)
    \/ SetType({"asset", "box", ""})
    \/ SetModelNull
    \/ SetModelSelf
    \/ SetModelFresh
    \/ DoRemove
    \/ CatalogAdd(ModelIds)
    \/ CatalogRequestLoad(ModelIds)
    \/ CatalogLoad(ModelIds)
    \/ CatalogUnload(ModelIds)

SpecOwn == Init /\ [][NextOwn]_vars

\* The per-mesh material slots of a component bound to model asset 1: the
\* mapping table and the catalog's events on material asset 3.
NextMesh ==
    \/ SetAsset({Null, 1})
    \/ CatalogAdd({1, 3})
    \/ SetMapping({Undefined, Null, 3})
    \/ CatalogRequestLoad({3})
    \/ CatalogLoad({3})
    \/ CatalogUnload({3})
    \/ CatalogRemove({3})

SpecMesh == Init /\ [][NextMesh]_vars

\* The whole-component material slot: the material reference, the type,
\* enabling and disabling, remove(), and the catalog's events on the
\* material assets.
NextMat ==
    \/ SetMaterialAsset(MatIds)
    \/ SetType({"asset", "box"})
    \/ SetEnabled
    \/ DoRemove
    \/ CatalogAdd(MatIds)
    \/ CatalogRequestLoad(MatIds)
    \/ CatalogLoad(MatIds)
    \/ CatalogUnload(MatIds)
    \/ CatalogRemove(MatIds)

SpecMat == Init /\ [][NextMat]_vars

\* The render flags: the four flag setters, the model and meshInstances
\* properties, the type, and a model asset that loads.
NextFlags ==
    \/ SetCastShadows
    \/ SetReceiveShadows
    \/ SetLightmapped
    \/ SetIsStatic
    \/ SetMeshInstances
    \/ SetModelNull
    \/ SetModelFresh
    \/ SetType({"asset", "box"})
    \/ SetAsset({Null, 1})
    \/ CatalogAdd({1})
    \/ SetEnabled

SpecFlags == Init /\ [][NextFlags]_vars
\* Scene membership: the model, asset and type properties, the enabled flags
\* of the component and the entity, castShadows, and the catalog's events on
\* model asset 1.
NextScene ==
    \/ SetAsset({Null, 1})
    \/ SetType({"asset", "box"})
    \/ SetModelNull
    \/ SetModelFresh
    \/ SetEnabled
    \/ SetEntityEnabled
    \/ SetCastShadows
    \/ CatalogAdd({1})
    \/ CatalogRequestLoad({1})
    \/ CatalogLoad({1})
    \/ CatalogUnload({1})
    \/ CatalogRemove({1})

SpecScene == Init /\ [][NextScene]_vars

\* Batch groups: the batchGroupId property, the batching collaborator, the
\* model property, the enabled flags and a model asset that is registered.
NextBatch ==
    \/ SetBatchGroupId
    \/ BatcherRemoves
    \/ SetModelNull
    \/ SetModelFresh
    \/ SetEnabled
    \/ SetEntityEnabled
    \/ SetAsset({Null, 1})
    \/ CatalogAdd({1})

SpecBatch == Init /\ [][NextBatch]_vars

\* Mapping by path on a model asset that declares no mapping: model asset 2,
\* the mapping table with the path of material asset 3, and the catalog's
\* events on the two assets.
NextMap ==
    \/ SetAsset({Null, 2})
    \/ CatalogAdd({2, 3})
    \/ SetMapping({Undefined, PathOf(3)})
    \/ CatalogRequestLoad({3})
    \/ CatalogLoad({3})
    \/ CatalogRemove({3})

SpecMap == Init /\ [][NextMap]_vars

\* Loading of a mapped material: model asset 1, the mapping table, enabling
\* and disabling, and the registration and load of material asset 3; a load
\* in flight completes.
NextLoad ==
    \/ SetAsset({1})
    \/ CatalogAdd({1, 3})
    \/ SetMapping({Undefined, 3})
    \/ SetEnabled
    \/ CatalogRequestLoad({3})
    \/ CatalogLoad({3})

SpecLoad == Init /\ [][NextLoad]_vars /\ WF_vars(CatalogLoad({3}))

\* The model asset reference on a component that is enabled and disabled: two
\* model assets and the catalog's events on them.
NextAsset ==
    \/ SetAsset({Null} \cup ModelIds)
    \/ SetEnabled
    \/ SetEntityEnabled
    \/ CatalogAdd(ModelIds)
    \/ CatalogRequestLoad(ModelIds)
    \/ CatalogLoad(ModelIds)
    \/ CatalogUnload(ModelIds)
    \/ CatalogRemove(ModelIds)

SpecAsset == Init /\ [][NextAsset]_vars

\* The type property with valid and invalid values, on a component with a
\* model asset reference, an enabled flag and a model property.
NextType ==
    \/ SetType({"asset", "box"} \cup InvalidTypes)
    \/ SetAsset({Null, 1})
    \/ SetModelFresh
    \/ SetEnabled
    \/ CatalogAdd({1})
    \/ CatalogRequestLoad({1})
    \/ CatalogLoad({1})

SpecType == Init /\ [][NextType]_vars

\* The button and its image element: input events, property changes, writes
\* of the element from outside, gain and loss of the element, update ticks.
NextButton ==
    \/ \E event \in InputEvents : hasElement /\ ButtonCommit(OnInput(Button, event))
    \/ \E v \in BOOLEAN : ButtonCommit(OnSetActive(Button, v))
    \/ \E v \in BOOLEAN : ButtonCommit(ButtonSetEnabled(Button, v))
    \/ \E v \in {"TINT", "SPRITE_CHANGE"} : ButtonCommit(OnSetTransitionMode(Button, v))
    \/ \E v \in {Color(0, ColorOne), Color(1, 1)} :
           ButtonCommit(OnSetTransitionValue(Button, v))
    \/ \E v \in {0, 100} : ButtonCommit([Button EXCEPT !.fadeDuration = v])
    \/ \E prop \in DOMAIN OutsideValues : \E value \in OutsideValues[prop] :
           hasElement /\ ButtonCommit(ElementSet(Button, prop, value))
    \/ \E c \in OutsideValues.color, o \in OutsideValues.opacity,
          a \in OutsideValues.spriteAsset, f \in OutsideValues.spriteFrame :
           /\ ~hasElement
           /\ ButtonCommit(OnImageElementGain(Button,
                  [color |-> c, opacity |-> o, spriteAsset |-> a, spriteFrame |-> f]))
    \/ hasElement /\ ButtonCommit(OnImageElementLose(Button))
    \/ \E ended \in BOOLEAN : ButtonCommit(OnUpdate(Button, ended))

SpecButton == Init /\ [][NextButton]_vars

\* The registry of component systems: add and remove with names of systems
\* and with names of the registry's own members.
NextRegistry ==
    \/ DoRegistryAdd
    \/ DoRegistryRemove

SpecRegistry == Init /\ [][NextRegistry]_vars

====
